---- MODULE Spec2Model ----
(***************************************************************************)
(* A model of app.py: the MJPEG frame generator behind /video_feed         *)
(* (get_camera, generate_frames) and the two command endpoints             *)
(* (/joystick, /run) that forward JSON bodies to the Arduino serial link.  *)
(***************************************************************************)
EXTENDS Integers, Sequences, FiniteSets

VARIABLES
    osName,                 \* os.name of the host: "nt" or "posix"
    pc,                     \* per stream: where the generator stands
    att,                    \* per stream: index of the next entry of attempts
    camera,                 \* per stream: the VideoCapture the generator holds
    handles,                \* per stream: VideoCapture objects opened, not released
    warm,                   \* per stream: warm-up grabs done on this handle
    consecutive_failures,   \* per stream: the local of generate_frames
    streak,                 \* per stream: failed reads since the last good read
    prevStreak,             \* per stream: streak just before the last good read
    ev,                     \* per stream: the last thing the generator did
    frame_bytes,            \* per stream: buffer.tobytes() of the frame at the yield
    chunk,                  \* per stream: the bytes handed over at the yield
    backlog,                \* per stream: frames encoded so far minus chunks yielded
    arduino,                \* the module-level serial link: "None", "open", "broken"
    stage,                  \* per request: where its handler stands
    request,                \* per request: content type and body as received
    data,                   \* per request: the local data / program of the handler
    calls,                  \* per request: the arguments of its arduino.write calls
    pending,                \* per request: bytes of the running write not yet out
    resp,                   \* per request: the response returned
    order,                  \* requests in the order their handlers were invoked
    wire                    \* bytes that reached the serial link, in order

camVars == <<osName, pc, att, camera, handles, warm, consecutive_failures,
             streak, prevStreak, ev, frame_bytes, chunk, backlog>>
cmdVars == <<arduino, stage, request, data, calls, pending, resp, order, wire>>
vars == <<camVars, cmdVars>>

----------------------------------------------------------------------------
(* Bounds of the model *)

MaxPayloadLen == 2          \* longest JPEG payload drawn for a frame
ChunkMax == 4               \* most bytes the OS takes in a partial serial write
NumRequests == 2            \* command requests in flight together

Clients == {1, 2}           \* /video_feed streams; stream 2 is not connected here
Streaming == {1}
Requests == 1..NumRequests  \* concurrently handled command requests
PayloadBytes == {10, 13, 45, 255}

----------------------------------------------------------------------------
(* Program constants *)

NumAttempts == 4            \* len(attempts) in get_camera
WarmupGrabs == 5            \* range(5) of the warm-up loop
Threshold == 5              \* consecutive_failures >= 5

----------------------------------------------------------------------------
(* generate_frames: pure parts *)

\* b'--frame\r\n'
BoundaryLine == <<45, 45, 102, 114, 97, 109, 101, 13, 10>>

\* b'Content-Type: image/jpeg\r\n\r\n'
ContentTypeLines ==
    <<67, 111, 110, 116, 101, 110, 116, 45, 84, 121, 112, 101, 58, 32,
      105, 109, 97, 103, 101, 47, 106, 112, 101, 103, 13, 10, 13, 10>>

MultipartChunkNoTail(b) ==
    BoundaryLine \o ContentTypeLines \o b

\* the value of the yield expression
MultipartChunk(b) ==
    BoundaryLine \o ContentTypeLines \o b \o <<13, 10>>

TooManyStrict(n) == n > Threshold

\* if consecutive_failures >= 5
TooMany(n) == n >= Threshold

AfterGoodReadKeep(n) == n

\* consecutive_failures = 0 after a good grab and retrieve
AfterGoodRead(n) == 0

\* consecutive_failures += 1
AfterBadRead(n) == n + 1

AfterEncodeFailureCounts(n) == n + 1

\* "if not ret: print; continue" leaves the counter as the good read set it
AfterEncodeFailure(n) == n

YieldsOnAnyGoodRead(o) == o \in {"frame", "encode_fail"}

\* the yield is reached when grab, retrieve and imencode all succeeded
YieldsOn(o) == o = "frame"

Payloads ==
    UNION {[1..n -> PayloadBytes] : n \in 1..MaxPayloadLen}

\* what one pass of the inner loop can meet on a handle
ReadOutcomes(cam) ==
    IF cam = "ready"
    THEN {"grab_fail", "retrieve_fail", "encode_fail", "frame", "raise"}
    ELSE {"grab_fail"}

----------------------------------------------------------------------------
(* get_camera and generate_frames, one stream c *)

camera_release(c) ==
    /\ handles' = [handles EXCEPT ![c] =
                      IF camera[c] \in {"ready", "notready"} THEN @ - 1 ELSE @]
    /\ camera' = [camera EXCEPT ![c] =
                      IF @ \in {"ready", "notready"} THEN "released" ELSE @]

\* creator() of the current attempt; on Windows the single VideoCapture(0)
get_camera_open(c) ==
    /\ pc[c] = "probe"
    /\ IF osName = "nt"
       THEN \E o \in {"ready", "notready"} :
               /\ camera' = [camera EXCEPT ![c] = o]
               /\ handles' = [handles EXCEPT ![c] = @ + 1]
               /\ pc' = [pc EXCEPT ![c] = "props"]
               /\ ev' = [ev EXCEPT ![c] = "open"]
               /\ UNCHANGED att
       ELSE /\ att[c] <= NumAttempts
            /\ \E o \in {"ready", "notready", "raise"} :
                  IF o = "raise"
                  THEN /\ att' = [att EXCEPT ![c] = @ + 1]
                       /\ ev' = [ev EXCEPT ![c] = "open_raised"]
                       /\ UNCHANGED <<camera, handles, pc>>
                  ELSE /\ camera' = [camera EXCEPT ![c] = o]
                       /\ handles' = [handles EXCEPT ![c] = @ + 1]
                       /\ pc' = [pc EXCEPT ![c] = "settle"]
                       /\ ev' = [ev EXCEPT ![c] = "open"]
                       /\ UNCHANGED att
    /\ UNCHANGED <<osName, backlog, warm, consecutive_failures, streak, prevStreak, frame_bytes, chunk>>
    /\ UNCHANGED cmdVars

get_camera_check_leak(c) ==
    /\ pc[c] = "settle"
    /\ IF camera[c] = "ready"
       THEN /\ pc' = [pc EXCEPT ![c] = "props"]
            /\ ev' = [ev EXCEPT ![c] = "accepted"]
            /\ UNCHANGED att
       ELSE /\ att' = [att EXCEPT ![c] = @ + 1]
            /\ pc' = [pc EXCEPT ![c] = "probe"]
            /\ ev' = [ev EXCEPT ![c] = "rejected"]
    /\ UNCHANGED <<osName, backlog, camera, handles, warm, consecutive_failures,
                   streak, prevStreak, frame_bytes, chunk>>
    /\ UNCHANGED cmdVars

\* time.sleep(0.5); if cam.isOpened(): return cam; else cam.release()
get_camera_check(c) ==
    /\ pc[c] = "settle"
    /\ IF camera[c] = "ready"
       THEN /\ pc' = [pc EXCEPT ![c] = "props"]
            /\ ev' = [ev EXCEPT ![c] = "accepted"]
            /\ UNCHANGED <<att, camera, handles>>
       ELSE /\ camera_release(c)
            /\ att' = [att EXCEPT ![c] = @ + 1]
            /\ pc' = [pc EXCEPT ![c] = "probe"]
            /\ ev' = [ev EXCEPT ![c] = "rejected"]
    /\ UNCHANGED <<osName, backlog, warm, consecutive_failures, streak, prevStreak, frame_bytes, chunk>>
    /\ UNCHANGED cmdVars

\* attempts exhausted: return None; "if not camera" holds in generate_frames
get_camera_none(c) ==
    /\ pc[c] = "probe"
    /\ osName # "nt"
    /\ att[c] > NumAttempts
    /\ camera' = [camera EXCEPT ![c] = "none"]
    /\ pc' = [pc EXCEPT ![c] = "backoff"]
    /\ ev' = [ev EXCEPT ![c] = "no_camera"]
    /\ UNCHANGED <<osName, backlog, att, handles, warm, consecutive_failures, streak,
                   prevStreak, frame_bytes, chunk>>
    /\ UNCHANGED cmdVars

\* time.sleep(2); continue
Backoff(c) ==
    /\ pc[c] = "backoff"
    /\ pc' = [pc EXCEPT ![c] = "probe"]
    /\ att' = [att EXCEPT ![c] = 1]
    /\ ev' = [ev EXCEPT ![c] = "sleep2"]
    /\ UNCHANGED <<osName, backlog, camera, handles, warm, consecutive_failures, streak,
                   prevStreak, frame_bytes, chunk>>
    /\ UNCHANGED cmdVars

\* camera.set(...) three times and the print, inside try/except
SetProps(c) ==
    /\ pc[c] = "props"
    /\ pc' = [pc EXCEPT ![c] = "warm"]
    /\ warm' = [warm EXCEPT ![c] = 0]
    /\ ev' = [ev EXCEPT ![c] = "props"]
    /\ UNCHANGED <<osName, backlog, att, camera, handles, consecutive_failures, streak,
                   prevStreak, frame_bytes, chunk>>
    /\ UNCHANGED cmdVars

\* camera.grab() of the warm-up: True, False, or an exception that is passed
WarmupOutcomes == {"warm_ok", "warm_fail", "warm_raise"}

\* one pass of "for i in range(5)": grab, result or exception dropped, sleep 0.05
Warmup(c) ==
    /\ pc[c] = "warm"
    /\ warm[c] < WarmupGrabs
    /\ warm' = [warm EXCEPT ![c] = @ + 1]
    /\ \E o \in WarmupOutcomes : ev' = [ev EXCEPT ![c] = o]
    /\ UNCHANGED <<osName, backlog, pc, att, camera, handles, consecutive_failures,
                   streak, prevStreak, frame_bytes, chunk>>
    /\ UNCHANGED cmdVars

StartSession_stale(c) ==
    /\ pc[c] = "warm"
    /\ warm[c] = WarmupGrabs
    /\ streak' = [streak EXCEPT ![c] = 0]
    /\ prevStreak' = [prevStreak EXCEPT ![c] = 0]
    /\ pc' = [pc EXCEPT ![c] = "grab"]
    /\ ev' = [ev EXCEPT ![c] = "session"]
    /\ UNCHANGED <<osName, backlog, att, camera, handles, warm,
                   consecutive_failures, frame_bytes, chunk>>
    /\ UNCHANGED cmdVars

\* consecutive_failures = 0; enter the try and the inner while
StartSession(c) ==
    /\ pc[c] = "warm"
    /\ warm[c] = WarmupGrabs
    /\ consecutive_failures' = [consecutive_failures EXCEPT ![c] = 0]
    /\ streak' = [streak EXCEPT ![c] = 0]
    /\ prevStreak' = [prevStreak EXCEPT ![c] = 0]
    /\ pc' = [pc EXCEPT ![c] = "grab"]
    /\ ev' = [ev EXCEPT ![c] = "session"]
    /\ UNCHANGED <<osName, backlog, att, camera, handles, warm, frame_bytes, chunk>>
    /\ UNCHANGED cmdVars

\* grab, retrieve, imencode and the yield of one pass of the inner loop
ReadIteration(c) ==
    /\ pc[c] = "grab"
    /\ \E o \in ReadOutcomes(camera[c]) :
          CASE o \in {"grab_fail", "retrieve_fail"} ->
                  /\ consecutive_failures' =
                        [consecutive_failures EXCEPT ![c] = AfterBadRead(@)]
                  /\ streak' = [streak EXCEPT ![c] = @ + 1]
                  /\ pc' = [pc EXCEPT ![c] = "check"]
                  /\ ev' = [ev EXCEPT ![c] = o]
                  /\ UNCHANGED <<prevStreak, frame_bytes, chunk, backlog, camera,
                                 handles>>
            [] o \in {"encode_fail", "frame"} ->
                  \* a good read; "if not ret: continue" skips the yield, and
                  \* with it the threshold test and the sleep
                  /\ consecutive_failures' =
                        [consecutive_failures EXCEPT ![c] =
                            IF o = "encode_fail"
                            THEN AfterEncodeFailure(AfterGoodRead(@))
                            ELSE AfterGoodRead(@)]
                  /\ prevStreak' = [prevStreak EXCEPT ![c] = streak[c]]
                  /\ streak' = [streak EXCEPT ![c] = 0]
                  /\ backlog' = [backlog EXCEPT ![c] =
                                    @ + (IF o = "frame" THEN 1 ELSE 0)
                                      - (IF YieldsOn(o) THEN 1 ELSE 0)]
                  /\ IF YieldsOn(o)
                     THEN /\ \E b \in Payloads :
                                /\ frame_bytes' = [frame_bytes EXCEPT ![c] = b]
                                /\ chunk' = [chunk EXCEPT ![c] = MultipartChunk(b)]
                          /\ pc' = [pc EXCEPT ![c] = "yielded"]
                          /\ ev' = [ev EXCEPT ![c] =
                                       IF o = "frame" THEN "yield" ELSE o]
                     ELSE /\ pc' = [pc EXCEPT ![c] = "grab"]
                          /\ ev' = [ev EXCEPT ![c] = o]
                          /\ UNCHANGED <<frame_bytes, chunk>>
                  /\ UNCHANGED <<camera, handles>>
            [] o = "raise" ->
                  \* except Exception: print; finally: camera.release()
                  /\ camera_release(c)
                  /\ pc' = [pc EXCEPT ![c] = "pause"]
                  /\ ev' = [ev EXCEPT ![c] = "exception_release"]
                  /\ UNCHANGED <<consecutive_failures, streak, prevStreak,
                                 frame_bytes, chunk, backlog>>
    /\ UNCHANGED <<osName, att, warm>>
    /\ UNCHANGED cmdVars

\* the consumer asks for the next chunk: the generator goes on after the yield
ResumeAfterYield(c) ==
    /\ pc[c] = "yielded"
    /\ chunk' = [chunk EXCEPT ![c] = <<>>]
    /\ frame_bytes' = [frame_bytes EXCEPT ![c] = <<>>]
    /\ pc' = [pc EXCEPT ![c] = "check"]
    /\ ev' = [ev EXCEPT ![c] = "resumed"]
    /\ UNCHANGED <<osName, backlog, att, camera, handles, warm, consecutive_failures,
                   streak, prevStreak>>
    /\ UNCHANGED cmdVars

Disconnect_no_finally(c) ==
    /\ pc[c] = "yielded"
    /\ chunk' = [chunk EXCEPT ![c] = <<>>]
    /\ frame_bytes' = [frame_bytes EXCEPT ![c] = <<>>]
    /\ pc' = [pc EXCEPT ![c] = "closed"]
    /\ ev' = [ev EXCEPT ![c] = "closed"]
    /\ UNCHANGED <<osName, backlog, att, camera, handles, warm,
                   consecutive_failures, streak, prevStreak>>
    /\ UNCHANGED cmdVars

Disconnect_shared_camera(c) ==
    /\ pc[c] = "yielded"
    /\ handles' = [d \in Clients |-> 0]
    /\ camera' = [d \in Clients |->
                     IF camera[d] \in {"ready", "notready"}
                     THEN "released" ELSE camera[d]]
    /\ chunk' = [chunk EXCEPT ![c] = <<>>]
    /\ frame_bytes' = [frame_bytes EXCEPT ![c] = <<>>]
    /\ pc' = [pc EXCEPT ![c] = "closed"]
    /\ ev' = [ev EXCEPT ![c] = "closed"]
    /\ UNCHANGED <<osName, backlog, att, warm, consecutive_failures, streak,
                   prevStreak>>
    /\ UNCHANGED cmdVars

\* the client goes away: GeneratorExit at the yield, finally: camera.release()
Disconnect(c) ==
    /\ pc[c] = "yielded"
    /\ camera_release(c)
    /\ chunk' = [chunk EXCEPT ![c] = <<>>]
    /\ frame_bytes' = [frame_bytes EXCEPT ![c] = <<>>]
    /\ pc' = [pc EXCEPT ![c] = "closed"]
    /\ ev' = [ev EXCEPT ![c] = "closed"]
    /\ UNCHANGED <<osName, backlog, att, warm, consecutive_failures, streak, prevStreak>>
    /\ UNCHANGED cmdVars

\* if consecutive_failures >= 5: release, break, finally release;
\* else time.sleep(0.02)
CheckFailures(c) ==
    /\ pc[c] = "check"
    /\ IF TooMany(consecutive_failures[c])
       THEN /\ camera_release(c)
            /\ pc' = [pc EXCEPT ![c] = "pause"]
            /\ ev' = [ev EXCEPT ![c] = "threshold_release"]
       ELSE /\ pc' = [pc EXCEPT ![c] = "grab"]
            /\ ev' = [ev EXCEPT ![c] = "sleep20ms"]
            /\ UNCHANGED <<camera, handles>>
    /\ UNCHANGED <<osName, backlog, att, warm, consecutive_failures, streak, prevStreak,
                   frame_bytes, chunk>>
    /\ UNCHANGED cmdVars

Pause_gives_up(c) ==
    /\ pc[c] = "pause"
    /\ pc' = [pc EXCEPT ![c] = "ended"]
    /\ ev' = [ev EXCEPT ![c] = "gave_up"]
    /\ UNCHANGED <<osName, backlog, att, camera, handles, warm,
                   consecutive_failures, streak, prevStreak, frame_bytes, chunk>>
    /\ UNCHANGED cmdVars

\* time.sleep(1), then the outer while calls get_camera again
Pause(c) ==
    /\ pc[c] = "pause"
    /\ pc' = [pc EXCEPT ![c] = "probe"]
    /\ att' = [att EXCEPT ![c] = 1]
    /\ ev' = [ev EXCEPT ![c] = "sleep1"]
    /\ UNCHANGED <<osName, backlog, camera, handles, warm, consecutive_failures, streak,
                   prevStreak, frame_bytes, chunk>>
    /\ UNCHANGED cmdVars

\* GET /video_feed: Response(generate_frames(), ...) starts a generator of
\* its own for the new client
video_feed(c) ==
    /\ pc[c] = "idle"
    /\ pc' = [pc EXCEPT ![c] = "probe"]
    /\ att' = [att EXCEPT ![c] = 1]
    /\ ev' = [ev EXCEPT ![c] = "connected"]
    /\ UNCHANGED <<osName, backlog, camera, handles, warm, consecutive_failures,
                   streak, prevStreak, frame_bytes, chunk>>
    /\ UNCHANGED cmdVars

\* the generator's own steps: everything but the client going away
generate_frames(c) ==
    \/ get_camera_open(c)
    \/ get_camera_check(c)
    \/ get_camera_none(c)
    \/ Backoff(c)
    \/ SetProps(c)
    \/ Warmup(c)
    \/ StartSession(c)
    \/ ReadIteration(c)
    \/ ResumeAfterYield(c)
    \/ CheckFailures(c)
    \/ Pause(c)

----------------------------------------------------------------------------
(* JSON as the handlers see it: request.get_json and json.dumps *)

DigitChars == <<"0", "1", "2", "3", "4", "5", "6", "7", "8", "9">>
Digits == {DigitChars[i] : i \in 1..Len(DigitChars)}
DigitVal(ch) == (CHOOSE i \in 1..Len(DigitChars) : DigitChars[i] = ch) - 1
KeyChars == {"x", "y"}

JsonNull == [t |-> "null"]
JsonInt(n) == [t |-> "int", n |-> n]
JsonList(ns) == [t |-> "list", ns |-> ns]
JsonObj(k, n) == [t |-> "obj", k |-> k, n |-> n]

NoRequest == [is_json |-> FALSE, body |-> <<>>]

IsSpace(ch) == ch = " "
NoSpace(s) == SelectSeq(s, LAMBDA ch : ~IsSpace(ch))

\* json.loads on the grammar  null | d | [d, ...] | {"k": d}  with d a digit;
\* blanks between tokens are skipped
json_loads(s) ==
    LET t == NoSpace(s)
        n == Len(t)
        inner == SubSeq(t, 2, n - 1)
        m == Len(inner)
    IN  IF t = <<"n", "u", "l", "l">>
        THEN [ok |-> TRUE, v |-> JsonNull]
        ELSE IF n = 1 /\ t[1] \in Digits
        THEN [ok |-> TRUE, v |-> JsonInt(DigitVal(t[1]))]
        ELSE IF n >= 2 /\ t[1] = "[" /\ t[n] = "]"
                /\ (m = 0 \/ m % 2 = 1)
                /\ \A i \in 1..m :
                      IF i % 2 = 1 THEN inner[i] \in Digits ELSE inner[i] = ","
        THEN [ok |-> TRUE,
              v |-> JsonList([i \in 1..((m + 1) \div 2) |->
                                 DigitVal(inner[2 * i - 1])])]
        ELSE IF n = 7 /\ t[1] = "{" /\ t[2] = "\"" /\ t[3] \in KeyChars
                /\ t[4] = "\"" /\ t[5] = ":" /\ t[6] \in Digits /\ t[7] = "}"
        THEN [ok |-> TRUE, v |-> JsonObj(t[3], DigitVal(t[6]))]
        ELSE [ok |-> FALSE, v |-> JsonNull]

RECURSIVE JoinInts(_)
JoinInts(ns) ==
    IF ns = <<>> THEN <<>>
    ELSE IF Len(ns) = 1 THEN <<DigitChars[ns[1] + 1]>>
    ELSE <<DigitChars[ns[1] + 1], ",", " ">> \o JoinInts(Tail(ns))

\* json.dumps with the default separators ', ' and ': '
json_dumps(v) ==
    CASE v.t = "null" -> <<"n", "u", "l", "l">>
      [] v.t = "int" -> <<DigitChars[v.n + 1]>>
      [] v.t = "list" -> <<"[">> \o JoinInts(v.ns) \o <<"]">>
      [] v.t = "obj" ->
            <<"{", "\"", v.k, "\"", ":", " ", DigitChars[v.n + 1], "}">>

get_json_silent(req) ==
    IF req.is_json /\ json_loads(req.body).ok
    THEN [raised |-> FALSE, v |-> json_loads(req.body).v, why |-> "none"]
    ELSE [raised |-> FALSE, v |-> JsonNull, why |-> "none"]

\* request.get_json() / request.json: 415 when the content type is not JSON,
\* 400 when the body does not parse (Flask 2.1 and later)
get_json(req) ==
    IF ~req.is_json
    THEN [raised |-> TRUE, v |-> JsonNull, why |-> "415 Unsupported Media Type"]
    ELSE IF ~json_loads(req.body).ok
    THEN [raised |-> TRUE, v |-> JsonNull, why |-> "400 Bad Request"]
    ELSE [raised |-> FALSE, v |-> json_loads(req.body).v, why |-> "none"]

Bodies ==
    { <<"{", "\"", "x", "\"", ":", "1", "}">>,
      <<"[", "1", ",", "2", "]">>,
      <<" ", "7">>,
      <<"n", "u", "l", "l">>,
      <<"{", "\"", "x">>,
      <<>> }

RequestInputs ==
    {[is_json |-> TRUE, body |-> b] : b \in Bodies}
        \cup {[is_json |-> FALSE, body |-> <<"7">>]}

----------------------------------------------------------------------------
(* /joystick and /run *)

CommandLineBare(v) == json_dumps(v)

\* command = json.dumps(data) + "\n"; command.encode("utf-8")
CommandLine(v) == json_dumps(v) \o <<"\n">>

LinkPresentAlways(a) == TRUE

\* if arduino:
LinkPresent(a) == a # "None"

\* jsonify({"status": "ok", "sent": data})
OkResponse(v) == [code |-> 200, status |-> "ok", sent |-> v]

\* jsonify({"status": "error", "message": str(e)}), 500
ErrorResponse(why) == [code |-> 500, status |-> "error", message |-> why]

\* byte counts one os.write of a non-blocking port can take from a buffer
TakeSizes(buf) ==
    {Len(buf)} \cup (IF Len(buf) > ChunkMax THEN {ChunkMax} ELSE {})

\* the server hands a POST to a handler thread; which of the two routes it
\* is for decides only which of joystick and run_program runs next
Invoke(r) ==
    /\ stage[r] = "idle"
    /\ \E req \in RequestInputs : request' = [request EXCEPT ![r] = req]
    /\ stage' = [stage EXCEPT ![r] = "handler"]
    /\ order' = Append(order, r)
    /\ UNCHANGED <<arduino, data, calls, pending, resp, wire>>
    /\ UNCHANGED camVars

\* the handler up to its call of arduino.write, or to its return
HandlerBody(r) ==
    /\ LET got == get_json(request[r])
       IN  IF got.raised
           THEN /\ resp' = [resp EXCEPT ![r] = ErrorResponse(got.why)]
                /\ stage' = [stage EXCEPT ![r] = "done"]
                /\ UNCHANGED <<data, calls, pending>>
           ELSE /\ data' = [data EXCEPT ![r] = got.v]
                /\ IF LinkPresent(arduino)
                   THEN /\ calls' = [calls EXCEPT ![r] =
                                        Append(@, CommandLine(got.v))]
                        /\ pending' = [pending EXCEPT ![r] = CommandLine(got.v)]
                        /\ stage' = [stage EXCEPT ![r] = "writing"]
                        /\ UNCHANGED resp
                   ELSE /\ resp' = [resp EXCEPT ![r] = OkResponse(got.v)]
                        /\ stage' = [stage EXCEPT ![r] = "done"]
                        /\ UNCHANGED <<calls, pending>>
    /\ UNCHANGED <<arduino, request, order, wire>>
    /\ UNCHANGED camVars

\* POST /joystick: data = request.get_json() ...
joystick(r) ==
    /\ stage[r] = "handler"
    /\ HandlerBody(r)

\* POST /run: program = request.json ..., the same steps on the same link
run_program(r) ==
    /\ stage[r] = "handler"
    /\ HandlerBody(r)

\* inside arduino.write: one os.write, or the exception of a link that is
\* no serial port, closed or failing; after the last byte the handler returns
serial_write(r) ==
    /\ stage[r] = "writing"
    /\ IF arduino = "open"
       THEN \E n \in TakeSizes(pending[r]) :
               /\ wire' = wire \o SubSeq(pending[r], 1, n)
               /\ pending' = [pending EXCEPT ![r] =
                                 SubSeq(@, n + 1, Len(@))]
               /\ IF n = Len(pending[r])
                  THEN /\ resp' = [resp EXCEPT ![r] = OkResponse(data[r])]
                       /\ stage' = [stage EXCEPT ![r] = "done"]
                  ELSE UNCHANGED <<resp, stage>>
       ELSE /\ resp' = [resp EXCEPT ![r] = ErrorResponse("write failed")]
            /\ stage' = [stage EXCEPT ![r] = "done"]
            /\ pending' = [pending EXCEPT ![r] = <<>>]
            /\ UNCHANGED wire
    /\ UNCHANGED <<arduino, request, data, calls, order>>
    /\ UNCHANGED camVars

\* the board is unplugged or the port breaks after start-up
LinkFails ==
    /\ arduino = "open"
    /\ arduino' = "broken"
    /\ UNCHANGED <<stage, request, data, calls, pending, resp, order, wire>>
    /\ UNCHANGED camVars

----------------------------------------------------------------------------
(* State after start-up: the serial link opened or not, stream 1 requested *)

Init ==
    /\ osName \in {"nt", "posix"}
    /\ pc = [c \in Clients |-> IF c \in Streaming THEN "probe" ELSE "idle"]
    /\ att = [c \in Clients |-> 1]
    /\ camera = [c \in Clients |-> "none"]
    /\ handles = [c \in Clients |-> 0]
    /\ warm = [c \in Clients |-> 0]
    /\ consecutive_failures = [c \in Clients |-> 0]
    /\ streak = [c \in Clients |-> 0]
    /\ prevStreak = [c \in Clients |-> 0]
    /\ ev = [c \in Clients |-> "none"]
    /\ frame_bytes = [c \in Clients |-> <<>>]
    /\ chunk = [c \in Clients |-> <<>>]
    /\ backlog = [c \in Clients |-> 0]
    /\ arduino \in {"None", "open"}
    /\ stage = [r \in Requests |-> "idle"]
    /\ request = [r \in Requests |-> NoRequest]
    /\ data = [r \in Requests |-> JsonNull]
    /\ calls = [r \in Requests |-> <<>>]
    /\ pending = [r \in Requests |-> <<>>]
    /\ resp = [r \in Requests |-> [code |-> 0]]
    /\ order = <<>>
    /\ wire = <<>>

Next ==
    \E c \in Streaming :
        \/ get_camera_open(c)
        \/ get_camera_check(c)
        \/ get_camera_none(c)
        \/ Backoff(c)
        \/ SetProps(c)
        \/ Warmup(c)
        \/ StartSession(c)
        \/ ReadIteration(c)
        \/ ResumeAfterYield(c)
        \/ Disconnect(c)
        \/ CheckFailures(c)
        \/ Pause(c)

Spec == Init /\ [][Next]_vars

CmdNext ==
    \/ \E r \in Requests :
          \/ Invoke(r)
          \/ joystick(r)
          \/ run_program(r)
          \/ serial_write(r)
    \/ LinkFails

CmdSpec == Init /\ [][CmdNext]_vars

\* two clients of /video_feed at once, each with its own generator; to keep
\* the product of the two small, the cameras of these runs deliver one
\* payload, their warm-up grabs return True, a failed read is a failed grab
\* and no backend call raises
TwoEnv ==
    \A c \in Clients :
        /\ frame_bytes'[c] \in {<<>>, <<255>>}
        /\ ev'[c] \notin {"warm_fail", "warm_raise", "retrieve_fail",
                          "open_raised", "exception_release"}

TwoInit == Init /\ arduino = "None"

TwoNext ==
    \E c \in Clients :
        \/ video_feed(c) /\ TwoEnv
        \/ get_camera_open(c) /\ TwoEnv
        \/ get_camera_check(c) /\ TwoEnv
        \/ get_camera_none(c) /\ TwoEnv
        \/ Backoff(c) /\ TwoEnv
        \/ SetProps(c) /\ TwoEnv
        \/ Warmup(c) /\ TwoEnv
        \/ StartSession(c) /\ TwoEnv
        \/ ReadIteration(c) /\ TwoEnv
        \/ ResumeAfterYield(c) /\ TwoEnv
        \/ Disconnect(c) /\ TwoEnv
        \/ CheckFailures(c) /\ TwoEnv
        \/ Pause(c) /\ TwoEnv

TwoSpec == TwoInit /\ [][TwoNext]_vars

\* a running generator is never suspended except at its yield, and the
\* consumer of a live connection keeps asking for the next chunk
FairSpec == Spec /\ \A c \in Streaming : WF_vars(generate_frames(c))

----------------------------------------------------------------------------
(* Properties of the frame generator *)

camState(c) ==
    <<pc[c], att[c], camera[c], handles[c], warm[c], consecutive_failures[c],
      streak[c], prevStreak[c], ev[c], frame_bytes[c], chunk[c], backlog[c]>>

\* C1: the consecutive-failure counter never exceeds the threshold 5 and no
\* read is attempted with the counter at 5; from the threshold test with the
\* counter at 5 the generator's next step releases the handle, and from there
\* its next step is the 1 s pause that leads to a new get_camera probe.
C1_ThresholdReopens ==
    /\ [](\A c \in Clients :
            /\ consecutive_failures[c] <= Threshold
            /\ (pc[c] = "grab" => consecutive_failures[c] < Threshold))
    /\ [][\A c \in Clients :
            camState(c)' # camState(c) =>
               /\ (pc[c] = "check" /\ consecutive_failures[c] >= Threshold) =>
                     /\ ev'[c] = "threshold_release"
                     /\ handles'[c] = 0
                     /\ pc'[c] = "pause"
               /\ pc[c] = "pause" =>
                     /\ ev'[c] = "sleep1"
                     /\ handles'[c] = 0
                     /\ pc'[c] = "probe"
               /\ (pc[c] = "probe" /\ ev[c] = "sleep1") =>
                     ev'[c] \in {"open", "open_raised"}]_vars

\* the 1 s pause that follows a release at the threshold is over
C1_Witness ==
    /\ pc[1] = "probe"
    /\ ev[1] = "sleep1"
    /\ consecutive_failures[1] = Threshold
    /\ streak[1] = Threshold
    /\ handles[1] = 0

\* C2: inside the read loop the counter equals the number of failed reads
\* since the last good read on this handle, so a good read after K < 5
\* failures puts it back to 0; the handle is released at the threshold only
\* after 5 failed reads with no good read between them, and until then it
\* stays open (4 failures, a good read, 4 failures: no release).
C2_GoodReadResets ==
    \A c \in Clients :
        /\ pc[c] \in {"grab", "check", "yielded"} =>
              consecutive_failures[c] = streak[c]
        /\ ev[c] \in {"encode_fail", "yield"} => consecutive_failures[c] = 0
        /\ ev[c] = "threshold_release" => streak[c] = Threshold
        /\ (pc[c] \in {"grab", "check", "yielded"} /\ streak[c] < Threshold) =>
              /\ handles[c] = 1
              /\ camera[c] \in {"ready", "notready"}

\* 4 failures, a good read, 4 more failures, and the loop goes on reading
C2_Witness ==
    /\ pc[1] = "grab"
    /\ ev[1] = "sleep20ms"
    /\ prevStreak[1] = Threshold - 1
    /\ streak[1] = Threshold - 1
    /\ consecutive_failures[1] = Threshold - 1
    /\ handles[1] = 1

\* every probe so far came back without a handle
NeverOpened == \A c \in Streaming : pc[c] \in {"probe", "settle", "backoff"}

\* C3: if every get_camera probe fails for ever, every stream still yields a
\* frame again and again.
C3_PlaceholderFrames ==
    ([]NeverOpened) => (\A c \in Streaming : []<>(ev[c] = "yield"))

C10_Header ==
    <<45, 45, 102, 114, 97, 109, 101, 13, 10,
      67, 111, 110, 116, 101, 110, 116, 45, 84, 121, 112, 101, 58, 32,
      105, 109, 97, 103, 101, 47, 106, 112, 101, 103, 13, 10, 13, 10>>

C10_Strip(bytes) == SubSeq(bytes, Len(C10_Header) + 1, Len(bytes) - 2)

\* C10: a yielded chunk is '--frame\r\nContent-Type: image/jpeg\r\n\r\n',
\* then the JPEG payload, then '\r\n'; cutting the fixed header and the last
\* two bytes off gives the payload back.
C10_Framing ==
    \A c \in Clients :
        pc[c] = "yielded" =>
            /\ frame_bytes[c] # <<>>
            /\ chunk[c] = C10_Header \o frame_bytes[c] \o <<13, 10>>
            /\ C10_Strip(chunk[c]) = frame_bytes[c]

\* a yielded payload that itself ends in '\r\n'
C10_Witness ==
    /\ pc[1] = "yielded"
    /\ frame_bytes[1] = <<13, 10>>
    /\ Len(chunk[1]) = Len(C10_Header) + 4

\* C11: a stream never holds more than one unreleased VideoCapture, and
\* whenever get_camera is about to open one, or the generator waits or has
\* ended, the stream holds none.
C11_OneHandlePerStream ==
    \A c \in Clients :
        /\ handles[c] <= 1
        /\ pc[c] \in {"idle", "probe", "backoff", "pause", "closed"} =>
              handles[c] = 0

\* the fourth attempt of a probe that follows an exhausted session has its
\* handle open, the earlier ones are gone
C11_Witness ==
    /\ pc[1] = "settle"
    /\ att[1] = NumAttempts
    /\ consecutive_failures[1] = Threshold
    /\ handles[1] = 1

\* C12: however a session ends (threshold, exception of the backend, the
\* client closing the generator at the yield), its handle is released.
C12_ReleasedOnEveryExit ==
    \A c \in Clients :
        /\ pc[c] \in {"pause", "closed"} =>
              /\ handles[c] = 0
              /\ camera[c] = "released"
        /\ ev[c] \in {"threshold_release", "exception_release", "closed"} =>
              handles[c] = 0

\* the client went away at a yield and the handle is released
C12_Witness ==
    /\ pc[1] = "closed"
    /\ ev[1] = "closed"
    /\ camera[1] = "released"
    /\ handles[1] = 0

\* C13: the step in which one client's generator is closed changes nothing
\* of any other stream, and a closed generator takes no further step.
C13_DisconnectIsLocal ==
    [][\A c \in Clients :
          /\ (pc[c] = "yielded" /\ pc'[c] = "closed") =>
                \A d \in Clients \ {c} : camState(d)' = camState(d)
          /\ pc[c] = "closed" => camState(c)' = camState(c)]_vars

\* client 1 is gone, client 2 has its handle and is being sent a frame
C13_Witness ==
    /\ pc[1] = "closed"
    /\ pc[2] = "yielded"
    /\ camera[2] = "ready"
    /\ handles[2] = 1
    /\ chunk[2] # <<>>

\* C14: right after an encode failure no chunk is out, the counter is 0, the
\* handle is still open and the loop is back at its grab; a release at the
\* threshold only follows 5 failed reads in a row, encode failures not
\* counted.
C14_EncodeFailureSkips ==
    \A c \in Clients :
        /\ ev[c] = "encode_fail" =>
              /\ consecutive_failures[c] = 0
              /\ pc[c] = "grab"
              /\ chunk[c] = <<>>
              /\ handles[c] = 1
              /\ camera[c] = "ready"
        /\ ev[c] = "threshold_release" =>
              /\ streak[c] = Threshold
              /\ consecutive_failures[c] = Threshold

\* an encode failure right after 4 failed reads
C14_Witness ==
    /\ ev[1] = "encode_fail"
    /\ prevStreak[1] = Threshold - 1
    /\ consecutive_failures[1] = 0
    /\ handles[1] = 1

\* C15: a grab of the read loop, other than the first on a handle, comes
\* right after the 20 ms sleep.
C15_PacedReads ==
    \A c \in Clients : pc[c] = "grab" => ev[c] \in {"session", "sleep20ms"}

\* C16: a probe that ends without a ready backend is followed by the 2 s
\* backoff; the 2 s backoff only follows such a probe; the 1 s pause only
\* follows a session on a ready handle, with the handle released.
C16_TwoTierDelay ==
    [][\A c \in Clients :
          /\ (pc[c] \in {"probe", "settle"} /\ pc'[c] \notin {"probe", "settle"}
                /\ camera'[c] # "ready") => pc'[c] = "backoff"
          /\ (pc[c] # "backoff" /\ pc'[c] = "backoff") =>
                (pc[c] = "probe" /\ handles[c] = 0)
          /\ (pc[c] = "backoff" /\ pc'[c] # "backoff") =>
                (pc'[c] = "probe" /\ ev'[c] = "sleep2")
          /\ (pc[c] # "pause" /\ pc'[c] = "pause") =>
                (pc[c] \in {"grab", "check"} /\ camera[c] = "ready"
                    /\ handles'[c] = 0)
          /\ (pc[c] = "pause" /\ pc'[c] # "pause") =>
                (pc'[c] = "probe" /\ ev'[c] = "sleep1")]_vars

\* C17: get_camera goes through its attempts in order, each once, and what it
\* hands to generate_frames is a ready handle or None.
C17_ProbeReturnsReadyOrNone ==
    \A c \in Clients :
        /\ att[c] \in 1..(NumAttempts + 1)
        /\ camera[c] = "notready" => pc[c] = "settle"
        /\ pc[c] = "backoff" => (att[c] = NumAttempts + 1 /\ handles[c] = 0)

\* the camera and the client are fine: nothing failed in the last step, no
\* unready handle is in use, the client is still there
Healthy(c) ==
    /\ pc[c] # "closed"
    /\ camera[c] # "notready"
    /\ ev[c] \notin {"open_raised", "rejected", "no_camera", "grab_fail",
                     "retrieve_fail", "encode_fail", "exception_release"}

\* C18: the generator ends only when its client closes it, and if from some
\* point on the camera opens and every read and encode succeeds, frames are
\* yielded again and again.
C18_RecoveryUnbounded ==
    /\ [](\A c \in Streaming :
            pc[c] \in {"probe", "settle", "backoff", "props", "warm", "grab",
                       "yielded", "check", "pause", "closed"})
    /\ \A c \in Streaming : (<>[]Healthy(c)) => []<>(ev[c] = "yield")

\* a frame is out after three attempts of the probe failed
C18_Witness ==
    /\ osName = "posix"
    /\ pc[1] = "yielded"
    /\ ev[1] = "yield"
    /\ att[1] = NumAttempts

\* C19: the read loop is entered only after exactly 5 warm-up grabs on the
\* handle, none of which touches the counter or the handle whatever it
\* returns or raises, and it is entered with the counter at 0.
C19_CounterStartsAfterWarmup ==
    /\ [](\A c \in Clients :
            /\ pc[c] \in {"grab", "check", "yielded"} => warm[c] = WarmupGrabs
            /\ ev[c] = "session" => consecutive_failures[c] = 0)
    /\ [][\A c \in Clients :
            camState(c)' # camState(c) =>
               /\ (pc[c] # "warm" /\ pc'[c] = "warm") => warm'[c] = 0
               /\ (pc[c] = "warm" /\ pc'[c] = "warm") =>
                     /\ warm'[c] = warm[c] + 1
                     /\ consecutive_failures'[c] = consecutive_failures[c]
                     /\ handles'[c] = handles[c]
                     /\ camera'[c] = camera[c]
               /\ (pc[c] = "warm" /\ pc'[c] # "warm") =>
                     /\ warm[c] = WarmupGrabs
                     /\ pc'[c] = "grab"
                     /\ consecutive_failures'[c] = 0]_vars

\* the warm-up of a new handle is over, its last grab raised, and the counter
\* still holds the 5 of the handle before
C19_Witness ==
    /\ pc[1] = "warm"
    /\ warm[1] = WarmupGrabs
    /\ ev[1] = "warm_raise"
    /\ consecutive_failures[1] = Threshold
    /\ handles[1] = 1

\* C20: chunks yielded and frames read and encoded keep in step, one chunk
\* per such frame and none otherwise, and the chunk at a yield frames the
\* bytes encoded in that pass of the loop.
C20_FramesInOrder ==
    \A c \in Clients :
        /\ backlog[c] = 0
        /\ pc[c] = "yielded" =>
              /\ ev[c] = "yield"
              /\ frame_bytes[c] \in Payloads
              /\ chunk[c] = MultipartChunk(frame_bytes[c])
        /\ pc[c] # "yielded" => chunk[c] = <<>>

\* a frame goes out right after two failed reads on the same handle
C20_Witness ==
    /\ pc[1] = "yielded"
    /\ ev[1] = "yield"
    /\ prevStreak[1] = 2
    /\ backlog[1] = 0

----------------------------------------------------------------------------
(* Properties of the command endpoints *)

ValidRequest(req) == req.is_json /\ json_loads(req.body).ok
BodyValue(req) == json_loads(req.body).v
AllButLast(line) == SubSeq(line, 1, Len(line) - 1)

RECURSIVE LinesInOrder(_)
LinesInOrder(ord) ==
    IF ord = <<>> THEN <<>>
    ELSE (IF calls[Head(ord)] = <<>> THEN <<>> ELSE calls[Head(ord)][1])
            \o LinesInOrder(Tail(ord))

\* C4: once N requests with valid bodies have been handled with the link
\* open, the link holds their N lines whole, in the order the requests were
\* invoked.
C4_LinesInCallOrder ==
    (/\ arduino = "open"
     /\ \A r \in Requests : stage[r] = "done" /\ ValidRequest(request[r]))
        => wire = LinesInOrder(order)

\* C5: at most one handler is inside arduino.write at any time.
C5_OneWriteInFlight ==
    Cardinality({r \in Requests : stage[r] = "writing"}) <= 1

\* C6: with no link object after start-up nothing is ever written, and every
\* request with a valid body ends with status ok and its body echoed in sent.
C6_NoLinkAccepted ==
    arduino = "None" =>
        /\ wire = <<>>
        /\ \A r \in Requests :
              /\ calls[r] = <<>>
              /\ stage[r] # "writing"
              /\ (stage[r] = "done" /\ ValidRequest(request[r])) =>
                    resp[r] = [code |-> 200, status |-> "ok",
                               sent |-> BodyValue(request[r])]

\* no link, and two valid requests answered ok
C6_Witness ==
    /\ arduino = "None"
    /\ \A r \in Requests :
          /\ stage[r] = "done"
          /\ ValidRequest(request[r])
          /\ resp[r].status = "ok"
    /\ resp[1].sent = JsonObj("x", 1)

\* C7: with a link opened at start-up, a request with a valid body is
\* answered with status ok and the body echoed, whether or not the write
\* to the link failed.
C7_LinkFailureHidden ==
    \A r \in Requests :
        (arduino # "None" /\ stage[r] = "done" /\ ValidRequest(request[r])) =>
            /\ resp[r].status = "ok"
            /\ resp[r].sent = BodyValue(request[r])

\* C8: a request whose body is no valid JSON, or that carries no JSON, never
\* leads to a write, and it is answered with status error and a code
\* outside 200..299.
C8_MalformedRejected ==
    \A r \in Requests :
        (stage[r] # "idle" /\ ~ValidRequest(request[r])) =>
            /\ calls[r] = <<>>
            /\ stage[r] \in {"handler", "done"}
            /\ stage[r] = "done" =>
                  /\ resp[r].status = "error"
                  /\ resp[r].code \notin 200..299

\* a truncated body and a body without JSON content type, both answered,
\* with the link open
C8_Witness ==
    /\ arduino = "open"
    /\ stage[1] = "done"
    /\ stage[2] = "done"
    /\ request[1] = [is_json |-> TRUE, body |-> <<"{", "\"", "x">>]
    /\ request[2] = [is_json |-> FALSE, body |-> <<"7">>]
    /\ resp[1].code = 500
    /\ resp[2].code = 500

\* C9: a handler calls arduino.write at most once; when a request with a valid
\* body is done and the link is open, its one write was the JSON text of the
\* body (it reads back as the body) followed by a single newline, and the
\* response is status ok with sent equal to the body.
C9_OneLinePerCommand ==
    \A r \in Requests :
        /\ Len(calls[r]) <= 1
        /\ (arduino = "open" /\ stage[r] = "done" /\ ValidRequest(request[r])) =>
              /\ Len(calls[r]) = 1
              /\ calls[r][1][Len(calls[r][1])] = "\n"
              /\ \A i \in 1..(Len(calls[r][1]) - 1) : calls[r][1][i] # "\n"
              /\ AllButLast(calls[r][1]) = json_dumps(BodyValue(request[r]))
              /\ json_loads(AllButLast(calls[r][1])) =
                    [ok |-> TRUE, v |-> BodyValue(request[r])]
              /\ resp[r] = [code |-> 200, status |-> "ok",
                            sent |-> BodyValue(request[r])]

\* {"x":1} was sent on as the line {"x": 1}\n and reached the link
C9_Witness ==
    /\ arduino = "open"
    /\ stage[1] = "done"
    /\ request[1].body = <<"{", "\"", "x", "\"", ":", "1", "}">>
    /\ calls[1] = << <<"{", "\"", "x", "\"", ":", " ", "1", "}", "\n">> >>
    /\ wire = calls[1][1]
    /\ resp[1].status = "ok"

====
